---- MODULE Spec2Model ----
(***************************************************************************)
(* State-machine model of the Location-and-Map application: the App        *)
(* component (saved places, add/edit modal, list modal, tracking flag) and *)
(* the useLocation hook (permission request, position subscription).       *)
(*                                                                         *)
(* Every handler of the component is one atomic action: React runs a       *)
(* handler to completion and re-renders before the next event is           *)
(* delivered, so each handler sees the state left by the previous one.     *)
(* Strings are sequences of characters, so that String.trim and            *)
(* Number.toString are computed rather than assumed.                       *)
(***************************************************************************)
EXTENDS Integers, Sequences, FiniteSets

\* ---------------------------------------------------------------- bounds
MaxPlaces == 3      \* the store holds at most this many places
MaxNow    == 1      \* Date.now() returns a value in 0..MaxNow
MaxLen    == 1      \* typed names have at most this many characters
MaxLat    == 1      \* latitudes are 0..MaxLat
MaxLon    == 0      \* longitudes are 0..MaxLon

\* ---------------------------------------------------------------- values
NULL == [null |-> TRUE]

Chars == {" ", "a"}
Whitespace == {" "}
Text == UNION {[1..n -> Chars] : n \in 0..MaxLen}
DescText == {<<>>, <<"d">>}

Coordinate == [latitude : 0..MaxLat, longitude : 0..MaxLon]
LocationObject == [coords : Coordinate]

Digit(d) == CASE d = 0 -> "0" [] d = 1 -> "1" [] d = 2 -> "2" [] d = 3 -> "3"
              [] d = 4 -> "4" [] d = 5 -> "5" [] d = 6 -> "6" [] d = 7 -> "7"
              [] d = 8 -> "8" [] d = 9 -> "9"

RECURSIVE toString(_)
toString(n) == IF n < 10 THEN <<Digit(n)>>
               ELSE toString(n \div 10) \o <<Digit(n % 10)>>

Ids == {toString(n) : n \in 0..MaxNow}

\* String.prototype.trim: drop leading and trailing whitespace
RECURSIVE TrimStart(_)
TrimStart(s) == IF s # <<>> /\ Head(s) \in Whitespace THEN TrimStart(Tail(s)) ELSE s

RECURSIVE TrimEnd(_)
TrimEnd(s) == IF s # <<>> /\ s[Len(s)] \in Whitespace
              THEN TrimEnd(SubSeq(s, 1, Len(s) - 1)) ELSE s

Trim_Identity(s) == s
Trim(s) == TrimEnd(TrimStart(s))

\* ---------------------------------------------------------------- state
VARIABLES
  savedPlaces,        \* App: useState<SavedPlace[]>([])
  addModalVisible,    \* App: add/edit modal
  listModalVisible,   \* App: list modal
  newPlaceName,       \* App: pending name
  newPlaceDesc,       \* App: pending description
  selectedLocation,   \* App: Coordinate | null
  isTracking,         \* App: tracking flag
  location,           \* useLocation: LocationObject | null
  errorMsg,           \* useLocation: string | null
  permission,         \* useLocation effect: "requesting", "denied", "watching"
  pendingDeletes,     \* ids with a "Delete Place" confirmation on screen
  alert,              \* title of the alert raised by the last step, or "none"
  lastOp,             \* the handler that ran last
  lastArg,            \* the argument that handler was called with, or NULL
  editing,            \* the place the last edit-open took out of the store, until
                      \* it is re-saved or the form is opened afresh; else NULL
  addSaves,           \* successful saves so far while only add operations ran, else -1
  trackingWasOff      \* history: isTracking has been false in some state so far

vars == <<savedPlaces, addModalVisible, listModalVisible, newPlaceName, newPlaceDesc,
          selectedLocation, isTracking, location, errorMsg, permission,
          pendingDeletes, alert, lastOp, lastArg, editing, addSaves, trackingWasOff>>

appVars == <<savedPlaces, addModalVisible, listModalVisible, newPlaceName, newPlaceDesc,
             selectedLocation, isTracking>>
hookVars == <<location, errorMsg, permission>>
formVars == <<addModalVisible, newPlaceName, newPlaceDesc, selectedLocation>>

Init ==
  /\ savedPlaces = <<>>
  /\ addModalVisible = FALSE
  /\ listModalVisible = FALSE
  /\ newPlaceName = <<>>
  /\ newPlaceDesc = <<>>
  /\ selectedLocation = NULL
  /\ isTracking = TRUE
  /\ location = NULL
  /\ errorMsg = NULL
  /\ permission = "requesting"
  /\ pendingDeletes = {}
  /\ alert = "none"
  /\ lastOp = "init"
  /\ lastArg = NULL
  /\ editing = NULL
  /\ addSaves = 0
  /\ trackingWasOff = FALSE

\* ---------------------------------------------------------------- helpers
Range(s) == {s[i] : i \in 1..Len(s)}

IdsOf(s) == {s[i].id : i \in 1..Len(s)}

\* mutants of the filter: nothing removed / the matching entries kept instead
WithoutId_KeepAll(prev, id) == prev
WithoutId_KeepMatching(prev, id) == SelectSeq(prev, LAMBDA p : p.id = id)
\* prev.filter((p) => p.id !== id)
WithoutId(prev, id) == SelectSeq(prev, LAMBDA p : p.id # id)

\* savedPlaces.find((p) => p.id === id): the first match, or undefined
FindPlace(id) ==
  IF id \in IdsOf(savedPlaces)
  THEN savedPlaces[CHOOSE i \in 1..Len(savedPlaces) :
                     /\ savedPlaces[i].id = id
                     /\ \A j \in 1..(i - 1) : savedPlaces[j].id # id]
  ELSE NULL

\* the map ref is attached for the whole life of the mounted component
mapRefCurrent == TRUE

\* what can be touched: the add/edit modal covers the list modal, both cover the map
MapTouchable == ~addModalVisible /\ ~listModalVisible
ListTouchable == listModalVisible /\ ~addModalVisible

\* the user operations that make up an "add" sequence
AddOps == {"mapPress", "addFab", "typeName", "typeDesc", "save", "cancel"}

\* history: a user operation outside AddOps ends the add-only prefix of the run
AddOnlyAfter(op, saved) ==
  IF addSaves < 0 \/ op \notin AddOps THEN -1
  ELSE IF saved THEN addSaves + 1 ELSE addSaves

\* ---------------------------------------------------------------- useLocation
\* setErrorMsg('Permission to access location was denied')
DeniedMessage == [message |-> "Permission to access location was denied"]

PermissionDenied ==
  /\ permission = "requesting"
  /\ permission' = "denied"
  /\ errorMsg' = DeniedMessage
  /\ alert' = "Permission Denied"
  /\ lastOp' = "permissionDenied"
  /\ UNCHANGED trackingWasOff
  /\ lastArg' = NULL
  /\ UNCHANGED <<appVars, location, pendingDeletes, editing, addSaves>>

PermissionGranted ==
  /\ permission = "requesting"
  /\ permission' = "watching"
  /\ alert' = "none"
  /\ lastOp' = "permissionGranted"
  /\ UNCHANGED trackingWasOff
  /\ lastArg' = NULL
  /\ UNCHANGED <<appVars, location, errorMsg, pendingDeletes, editing, addSaves>>

subscribed_NoReturn == permission # "requesting"
\* the subscription exists only past the early return of the denied branch
subscribed == permission = "watching"

PositionSample ==
  /\ subscribed
  /\ \E loc \in LocationObject :
       /\ location' = loc
       /\ lastArg' = loc
  /\ alert' = "none"
  /\ lastOp' = "position"
  /\ UNCHANGED trackingWasOff
  /\ UNCHANGED <<appVars, errorMsg, permission, pendingDeletes, editing, addSaves>>

\* ---------------------------------------------------------------- App
mapPressTracking_Kept == isTracking
\* setIsTracking(false) of handleMapPress
mapPressTracking == FALSE

handleMapPress ==
  /\ MapTouchable
  /\ \E coordinate \in Coordinate :
       /\ selectedLocation' = coordinate
       /\ lastArg' = coordinate
  /\ addModalVisible' = TRUE
  /\ isTracking' = mapPressTracking
  /\ alert' = "none"
  /\ lastOp' = "mapPress"
  /\ trackingWasOff' = (trackingWasOff \/ ~isTracking')
  /\ editing' = NULL
  /\ addSaves' = AddOnlyAfter("mapPress", FALSE)
  /\ UNCHANGED <<savedPlaces, listModalVisible, newPlaceName, newPlaceDesc,
                 hookVars, pendingDeletes>>

recenterGuard_NoPositionCheck == mapRefCurrent
\* if (mapRef.current && location)
recenterGuard == mapRefCurrent /\ location # NULL

recenterMap ==
  /\ MapTouchable
  /\ IF recenterGuard
     THEN isTracking' = TRUE
     ELSE UNCHANGED isTracking
  /\ alert' = "none"
  /\ lastOp' = "recenter"
  /\ UNCHANGED trackingWasOff
  /\ lastArg' = NULL
  /\ addSaves' = AddOnlyAfter("recenter", FALSE)
  /\ UNCHANGED <<savedPlaces, addModalVisible, listModalVisible, newPlaceName,
                 newPlaceDesc, selectedLocation, hookVars, pendingDeletes, editing>>

addFabPress ==
  /\ MapTouchable
  /\ selectedLocation' = NULL
  /\ addModalVisible' = TRUE
  /\ alert' = "none"
  /\ lastOp' = "addFab"
  /\ UNCHANGED trackingWasOff
  /\ lastArg' = NULL
  /\ editing' = NULL
  /\ addSaves' = AddOnlyAfter("addFab", FALSE)
  /\ UNCHANGED <<savedPlaces, listModalVisible, newPlaceName, newPlaceDesc, isTracking,
                 hookVars, pendingDeletes>>

listFabPress ==
  /\ MapTouchable
  /\ listModalVisible' = TRUE
  /\ alert' = "none"
  /\ lastOp' = "listFab"
  /\ UNCHANGED trackingWasOff
  /\ lastArg' = NULL
  /\ addSaves' = AddOnlyAfter("listFab", FALSE)
  /\ UNCHANGED <<savedPlaces, addModalVisible, newPlaceName, newPlaceDesc,
                 selectedLocation, isTracking, hookVars, pendingDeletes, editing>>

listClose ==
  /\ ListTouchable
  /\ listModalVisible' = FALSE
  /\ alert' = "none"
  /\ lastOp' = "listClose"
  /\ UNCHANGED trackingWasOff
  /\ lastArg' = NULL
  /\ addSaves' = AddOnlyAfter("listClose", FALSE)
  /\ UNCHANGED <<savedPlaces, addModalVisible, newPlaceName, newPlaceDesc,
                 selectedLocation, isTracking, hookVars, pendingDeletes, editing>>

onChangeName ==
  /\ addModalVisible
  /\ \E text \in Text :
       /\ newPlaceName' = text
       /\ lastArg' = text
  /\ alert' = "none"
  /\ lastOp' = "typeName"
  /\ UNCHANGED trackingWasOff
  /\ addSaves' = AddOnlyAfter("typeName", FALSE)
  /\ UNCHANGED <<savedPlaces, addModalVisible, listModalVisible, newPlaceDesc,
                 selectedLocation, isTracking, hookVars, pendingDeletes, editing>>

onChangeDesc ==
  /\ addModalVisible
  /\ \E text \in DescText :
       /\ newPlaceDesc' = text
       /\ lastArg' = text
  /\ alert' = "none"
  /\ lastOp' = "typeDesc"
  /\ UNCHANGED trackingWasOff
  /\ addSaves' = AddOnlyAfter("typeDesc", FALSE)
  /\ UNCHANGED <<savedPlaces, addModalVisible, listModalVisible, newPlaceName,
                 selectedLocation, isTracking, hookVars, pendingDeletes, editing>>

closeAddModal_KeepName ==
  /\ addModalVisible' = FALSE
  /\ selectedLocation' = NULL
  /\ UNCHANGED newPlaceName
  /\ newPlaceDesc' = <<>>
closeAddModal_KeepSelection ==
  /\ addModalVisible' = FALSE
  /\ UNCHANGED selectedLocation
  /\ newPlaceName' = <<>>
  /\ newPlaceDesc' = <<>>
closeAddModal_KeepDesc ==
  /\ addModalVisible' = FALSE
  /\ selectedLocation' = NULL
  /\ newPlaceName' = <<>>
  /\ UNCHANGED newPlaceDesc
\* closeAddModal's four assignments
closeAddModal ==
  /\ addModalVisible' = FALSE
  /\ selectedLocation' = NULL
  /\ newPlaceName' = <<>>
  /\ newPlaceDesc' = <<>>

cancelPress ==
  /\ addModalVisible
  /\ closeAddModal
  /\ alert' = "none"
  /\ lastOp' = "cancel"
  /\ UNCHANGED trackingWasOff
  /\ lastArg' = NULL
  /\ addSaves' = AddOnlyAfter("cancel", FALSE)
  /\ UNCHANGED <<savedPlaces, listModalVisible, isTracking, hookVars, pendingDeletes,
                 editing>>

\* saveCurrentPlace: the two early returns
NoTarget_Never == FALSE
NoTarget == selectedLocation = NULL /\ location = NULL

MissingName_NoTrim == newPlaceName = <<>>
MissingName_Never == FALSE
MissingName == Trim(newPlaceName) = <<>>

targetLocation_PreferLive ==
  IF location # NULL
  THEN [latitude |-> location.coords.latitude, longitude |-> location.coords.longitude]
  ELSE selectedLocation
\* selectedLocation || { latitude: location!.coords.latitude, ... }
targetLocation ==
  IF selectedLocation # NULL THEN selectedLocation
  ELSE [latitude |-> location.coords.latitude, longitude |-> location.coords.longitude]

\* dateNow is the value Date.now() returns at this call: the wall clock in
\* milliseconds, which need not have advanced since an earlier call and can be
\* set back between two calls
newPlace(dateNow) ==
  [id |-> toString(dateNow),
   latitude |-> targetLocation.latitude,
   longitude |-> targetLocation.longitude,
   name |-> newPlaceName,
   description |-> newPlaceDesc]

appendPlace_Prepend(prev, place) == <<place>> \o prev
\* [...prev, newPlace]
appendPlace(prev, place) == Append(prev, place)

saveCurrentPlace ==
  /\ addModalVisible
  /\ lastOp' = "save"
  /\ UNCHANGED trackingWasOff
  /\ UNCHANGED <<listModalVisible, isTracking, hookVars, pendingDeletes>>
  /\ IF NoTarget
     THEN /\ alert' = "none"
          /\ lastArg' = NULL
          /\ addSaves' = AddOnlyAfter("save", FALSE)
          /\ UNCHANGED <<savedPlaces, formVars, editing>>
     ELSE IF MissingName
     THEN /\ alert' = "Missing Name"
          /\ lastArg' = NULL
          /\ addSaves' = AddOnlyAfter("save", FALSE)
          /\ UNCHANGED <<savedPlaces, formVars, editing>>
     ELSE /\ Len(savedPlaces) < MaxPlaces
          /\ \E dateNow \in 0..MaxNow :
               /\ savedPlaces' = appendPlace(savedPlaces, newPlace(dateNow))
               /\ lastArg' = dateNow
          /\ closeAddModal
          /\ editing' = NULL
          /\ alert' = "none"
          /\ addSaves' = AddOnlyAfter("save", TRUE)

goToPlace ==
  /\ ListTouchable
  /\ \E place \in Range(savedPlaces) : lastArg' = place
  /\ listModalVisible' = FALSE
  /\ IF mapRefCurrent THEN isTracking' = FALSE ELSE UNCHANGED isTracking
  /\ alert' = "none"
  /\ lastOp' = "goToPlace"
  /\ trackingWasOff' = (trackingWasOff \/ ~isTracking')
  /\ addSaves' = AddOnlyAfter("goToPlace", FALSE)
  /\ UNCHANGED <<savedPlaces, addModalVisible, newPlaceName, newPlaceDesc,
                 selectedLocation, hookVars, pendingDeletes, editing>>

\* deletePlace raises the confirmation; its two buttons are the next two actions
deletePlace ==
  /\ ListTouchable
  /\ \E id \in IdsOf(savedPlaces) :
       /\ pendingDeletes' = pendingDeletes \cup {id}
       /\ lastArg' = id
  /\ alert' = "Delete Place"
  /\ lastOp' = "deletePrompt"
  /\ UNCHANGED trackingWasOff
  /\ addSaves' = AddOnlyAfter("deletePrompt", FALSE)
  /\ UNCHANGED <<appVars, hookVars, editing>>

deleteConfirm ==
  /\ \E id \in pendingDeletes :
       /\ savedPlaces' = WithoutId(savedPlaces, id)
       /\ pendingDeletes' = pendingDeletes \ {id}
       /\ lastArg' = id
  /\ alert' = "none"
  /\ lastOp' = "deleteConfirm"
  /\ UNCHANGED trackingWasOff
  /\ addSaves' = AddOnlyAfter("deleteConfirm", FALSE)
  /\ UNCHANGED <<addModalVisible, listModalVisible, newPlaceName, newPlaceDesc,
                 selectedLocation, isTracking, hookVars, editing>>

deleteCancel ==
  /\ \E id \in pendingDeletes :
       /\ pendingDeletes' = pendingDeletes \ {id}
       /\ lastArg' = id
  /\ alert' = "none"
  /\ lastOp' = "deleteCancel"
  /\ UNCHANGED trackingWasOff
  /\ addSaves' = AddOnlyAfter("deleteCancel", FALSE)
  /\ UNCHANGED <<appVars, hookVars, editing>>

editTracking_Kept == isTracking
\* setIsTracking(false) of editPlace
editTracking == FALSE

editPlace ==
  /\ ListTouchable
  /\ \E id \in IdsOf(savedPlaces) :
       LET place == FindPlace(id) IN
         /\ place # NULL
         /\ newPlaceName' = place.name
         /\ newPlaceDesc' = place.description
         /\ selectedLocation' = [latitude |-> place.latitude, longitude |-> place.longitude]
         /\ addModalVisible' = TRUE
         /\ savedPlaces' = WithoutId(savedPlaces, id)
         /\ isTracking' = editTracking
         /\ editing' = place
         /\ lastArg' = id
  /\ alert' = "none"
  /\ lastOp' = "edit"
  /\ trackingWasOff' = (trackingWasOff \/ ~isTracking')
  /\ addSaves' = AddOnlyAfter("edit", FALSE)
  /\ UNCHANGED <<listModalVisible, hookVars, pendingDeletes>>

\* ---------------------------------------------------------------- specification
Next ==
  \/ PermissionDenied
  \/ PermissionGranted
  \/ PositionSample
  \/ handleMapPress
  \/ recenterMap
  \/ addFabPress
  \/ listFabPress
  \/ listClose
  \/ onChangeName
  \/ onChangeDesc
  \/ cancelPress
  \/ saveCurrentPlace
  \/ goToPlace
  \/ deletePlace
  \/ deleteConfirm
  \/ deleteCancel
  \/ editPlace

Spec == Init /\ [][Next]_vars

TypeOK ==
  /\ addModalVisible \in BOOLEAN /\ listModalVisible \in BOOLEAN /\ isTracking \in BOOLEAN
  /\ newPlaceName \in Text /\ newPlaceDesc \in DescText
  /\ selectedLocation \in Coordinate \cup {NULL}
  /\ location \in LocationObject \cup {NULL}
  /\ pendingDeletes \subseteq Ids
  /\ Len(savedPlaces) <= MaxPlaces
  /\ \A i \in 1..Len(savedPlaces) : savedPlaces[i].id \in Ids

\* ---------------------------------------------------------------- properties
\* a name with nothing but whitespace in it (the empty name included)
IsBlank(s) == \A i \in 1..Len(s) : s[i] \in Whitespace

\* the step is a press of Save
SaveStep == addModalVisible /\ lastOp' = "save"
\* the step is a press of Save that stored a place
SavedStep == SaveStep /\ ~addModalVisible'

Last(s) == s[Len(s)]

\* the entries of s whose id is not x, in their order in s
KeptIndices(s, x) == {i \in 1..Len(s) : s[i].id # x}
NthKept(s, x, k) ==
  CHOOSE i \in KeptIndices(s, x) : Cardinality({j \in KeptIndices(s, x) : j < i}) = k - 1
IsRemovalOf(t, s, x) ==
  /\ Len(t) = Cardinality(KeptIndices(s, x))
  /\ \A k \in 1..Len(t) : t[k] = s[NthKept(s, x, k)]

\* C1 (as stated): whenever Save is pressed with the modal open and a name that
\* is empty after trimming, the "Missing Name" alert is raised, with or without
\* a selected coordinate or a live position.
C1_AlertOnBlankName_AnyTarget ==
  [][(SaveStep /\ IsBlank(newPlaceName)) => alert' = "Missing Name"]_vars

\* C1 (amended): whenever Save is pressed with the modal open, a name that is
\* empty after trimming, and a selected coordinate or a live position at hand,
\* the "Missing Name" alert is raised.
C1_AlertOnBlankName ==
  [][(SaveStep /\ IsBlank(newPlaceName) /\ (selectedLocation # NULL \/ location # NULL))
       => alert' = "Missing Name"]_vars

C1_Witness ==
  /\ lastOp = "save" /\ alert = "Missing Name"
  /\ addModalVisible /\ newPlaceName = <<" ">>
  /\ selectedLocation = NULL /\ location # NULL

\* C2: a press of Save with an empty or whitespace-only name leaves the store,
\* the modal's visibility, the name, the description and the selected
\* coordinate as they were.
C2_BlankSaveChangesNothing ==
  [][(SaveStep /\ IsBlank(newPlaceName))
       => UNCHANGED <<savedPlaces, addModalVisible, newPlaceName, newPlaceDesc,
                      selectedLocation>>]_vars

C2_Witness ==
  /\ lastOp = "save" /\ addModalVisible
  /\ newPlaceName = <<" ">> /\ newPlaceDesc # <<>>
  /\ selectedLocation # NULL /\ savedPlaces # <<>>

\* C3: no two places in the store have the same id.
C3_UniqueIds ==
  \A i, j \in 1..Len(savedPlaces) : i # j => savedPlaces[i].id # savedPlaces[j].id

\* C4: every place in the store has a name that is not empty and not
\* whitespace-only.
C4_StoredNamesNonBlank ==
  \A i \in 1..Len(savedPlaces) :
    savedPlaces[i].name # <<>> /\ ~IsBlank(savedPlaces[i].name)

C4_Witness ==
  /\ Len(savedPlaces) >= 2
  /\ lastOp = "save" /\ alert = "Missing Name" /\ editing # NULL

\* C5: while only add operations have run since the empty store, the store size
\* is the number of successful saves, a successful save puts the new place at
\* the end and keeps the earlier entries, and no other step changes the store.
C5_AddOnlyStoreGrowsBySaves ==
  [][addSaves' >= 0 =>
       /\ Len(savedPlaces') = addSaves'
       /\ IF SavedStep
          THEN /\ Len(savedPlaces') = Len(savedPlaces) + 1
               /\ SubSeq(savedPlaces', 1, Len(savedPlaces)) = savedPlaces
               /\ Last(savedPlaces').name = newPlaceName
               /\ addSaves' = addSaves + 1
          ELSE savedPlaces' = savedPlaces /\ addSaves' = addSaves]_vars

C5_Witness ==
  /\ addSaves = 2 /\ Len(savedPlaces) = 2 /\ lastOp = "save"
  /\ savedPlaces[1] # savedPlaces[2]

\* C6: opening the edit form for the place with id X takes exactly one entry out
\* of the store, the one with id X, and keeps the others in their order.
C6_EditOpenRemovesExactlyOne ==
  [][lastOp' = "edit" =>
       /\ Len(savedPlaces') = Len(savedPlaces) - 1
       /\ IsRemovalOf(savedPlaces', savedPlaces, lastArg')]_vars

\* C7: Cancel does not change the store; after an edit-open followed by Cancel
\* the store has no place with the edited id; and a place that is not in the
\* store enters it only by a Save.
C7_CancelledEditStaysLost ==
  [][/\ lastOp' = "cancel" =>
          /\ savedPlaces' = savedPlaces
          /\ editing # NULL => editing.id \notin IdsOf(savedPlaces')
     /\ Range(savedPlaces') \subseteq Range(savedPlaces) \/ SavedStep]_vars

C7_Witness ==
  /\ lastOp = "cancel" /\ editing # NULL
  /\ editing \notin Range(savedPlaces) /\ savedPlaces # <<>>

\* C8: a successful Save that follows an edit-open adds exactly one entry, whose
\* id differs from the edited place's id, whose name and description are the
\* form's values and whose coordinate is the edited place's coordinate.
C8_ResaveAfterEdit ==
  [][(SavedStep /\ editing # NULL) =>
       /\ Len(savedPlaces') = Len(savedPlaces) + 1
       /\ SubSeq(savedPlaces', 1, Len(savedPlaces)) = savedPlaces
       /\ Last(savedPlaces').id # editing.id
       /\ Last(savedPlaces').name = newPlaceName
       /\ Last(savedPlaces').description = newPlaceDesc
       /\ Last(savedPlaces').latitude = editing.latitude
       /\ Last(savedPlaces').longitude = editing.longitude]_vars

\* C9: confirming the delete of id X leaves exactly the entries whose id is not
\* X, in their order, and leaves the store unchanged when no entry has id X;
\* raising the prompt or choosing Cancel changes no state of the component.
C9_DeleteRemovesOnlyMatching ==
  [][/\ lastOp' = "deleteConfirm" =>
          /\ IsRemovalOf(savedPlaces', savedPlaces, lastArg')
          /\ lastArg' \notin IdsOf(savedPlaces) => savedPlaces' = savedPlaces
          /\ UNCHANGED <<addModalVisible, listModalVisible, newPlaceName, newPlaceDesc,
                         selectedLocation, isTracking>>
     /\ lastOp' \in {"deletePrompt", "deleteCancel"} => UNCHANGED appVars]_vars

C9_Witness ==
  /\ lastOp = "deleteConfirm"
  /\ Len(savedPlaces) = 2
  /\ lastArg \notin IdsOf(savedPlaces)
  /\ savedPlaces[1] # savedPlaces[2]

\* C10: a map tap sets tracking to false, sets the selected coordinate to the
\* tapped coordinate, opens the add/edit modal and leaves the store unchanged.
C10_MapPress ==
  [][lastOp' = "mapPress" =>
       /\ ~isTracking'
       /\ selectedLocation' = lastArg' /\ lastArg' \in Coordinate
       /\ addModalVisible'
       /\ savedPlaces' = savedPlaces]_vars

C10_Witness ==
  /\ lastOp = "mapPress" /\ ~isTracking /\ addModalVisible
  /\ selectedLocation = [latitude |-> 1, longitude |-> 0]
  /\ location # NULL /\ savedPlaces # <<>>

\* C11: a press of the recenter control with a live position known sets tracking
\* to true and changes nothing else; with no live position known it changes no
\* state of the component or the hook.
C11_Recenter ==
  [][lastOp' = "recenter" =>
       /\ UNCHANGED <<savedPlaces, addModalVisible, listModalVisible, newPlaceName,
                      newPlaceDesc, selectedLocation, hookVars, pendingDeletes>>
       /\ IF location # NULL THEN isTracking' ELSE UNCHANGED isTracking]_vars

C11_Witness ==
  /\ lastOp = "recenter" /\ isTracking
  /\ location # NULL /\ permission = "watching" /\ Len(savedPlaces) >= 1
  /\ addSaves = -1

\* C12: a press of the add button opens the add/edit modal with no selected
\* coordinate, an empty name and an empty description.
C12_AddButtonOpensEmptyForm ==
  [][lastOp' = "addFab" =>
       /\ addModalVisible'
       /\ selectedLocation' = NULL
       /\ newPlaceName' = <<>>
       /\ newPlaceDesc' = <<>>]_vars

C12_Witness ==
  /\ lastOp = "addFab" /\ addModalVisible
  /\ selectedLocation = NULL /\ newPlaceName = <<>> /\ newPlaceDesc = <<>>
  /\ Len(savedPlaces) >= 1 /\ ~isTracking

\* C13: a press of Save with neither a selected coordinate nor a live position
\* raises no alert and leaves the store, the modal, the name, the description
\* and the selection as they were.
C13_SaveWithoutTargetIsSilent ==
  [][(SaveStep /\ selectedLocation = NULL /\ location = NULL) =>
       /\ alert' = "none"
       /\ UNCHANGED <<savedPlaces, addModalVisible, newPlaceName, newPlaceDesc,
                      selectedLocation, listModalVisible, isTracking>>]_vars

C13_Witness ==
  /\ lastOp = "save" /\ alert = "none" /\ addModalVisible
  /\ selectedLocation = NULL /\ location = NULL
  /\ newPlaceName = <<"a">> /\ newPlaceDesc = <<"d">>

\* C14: once permission is denied it stays denied, the error message is set and
\* the live position is null; from then on no position sample is delivered,
\* recenter leaves tracking as it was, and a Save with no selected coordinate
\* adds no place.
C14_DeniedMeansNoPositionEver ==
  [][/\ permission = "denied" => permission' = "denied"
     /\ permission' = "denied" =>
          /\ errorMsg' = DeniedMessage
          /\ location' = NULL
     /\ permission = "denied" =>
          /\ lastOp' # "position"
          /\ lastOp' = "recenter" => UNCHANGED isTracking
          /\ (SaveStep /\ selectedLocation = NULL) => savedPlaces' = savedPlaces]_vars

C14_Witness ==
  /\ permission = "denied" /\ location = NULL
  /\ errorMsg = DeniedMessage
  /\ lastOp = "save" /\ addModalVisible /\ selectedLocation = NULL
  /\ newPlaceName = <<"a">> /\ savedPlaces # <<>>

\* C15: a successful Save stores the selected coordinate when there is one and
\* otherwise the coordinate of the latest position sample; a position sample
\* replaces the exposed position and changes nothing else, modal open or not.
C15_SaveTargetAndSamples ==
  [][/\ (SaveStep /\ Len(savedPlaces') > Len(savedPlaces)) =>
          LET target == IF selectedLocation # NULL THEN selectedLocation
                        ELSE location.coords
          IN /\ Last(savedPlaces').latitude = target.latitude
             /\ Last(savedPlaces').longitude = target.longitude
     /\ lastOp' = "position" =>
          /\ location' = lastArg'
          /\ UNCHANGED <<savedPlaces, addModalVisible, listModalVisible, newPlaceName,
                         newPlaceDesc, selectedLocation, isTracking>>]_vars

C15_Witness ==
  /\ lastOp = "save" /\ ~addModalVisible /\ alert = "none"
  /\ Len(savedPlaces) = 2 /\ addSaves = 2 /\ isTracking
  /\ savedPlaces[1].latitude = 0
  /\ savedPlaces[2].latitude = 1 /\ location.coords.latitude = 1

\* C16: a successful Save and a Cancel both close the add/edit modal and reset
\* the name, the description and the selected coordinate; Cancel leaves the
\* store and the tracking flag as they were.
C16_SaveAndCancelResetForm ==
  [][/\ ((SaveStep /\ savedPlaces' # savedPlaces) \/ lastOp' = "cancel") =>
          /\ ~addModalVisible'
          /\ newPlaceName' = <<>>
          /\ newPlaceDesc' = <<>>
          /\ selectedLocation' = NULL
     /\ lastOp' = "cancel" => UNCHANGED <<savedPlaces, isTracking>>]_vars

C16_Witness ==
  /\ lastOp = "cancel" /\ ~addModalVisible
  /\ newPlaceName = <<>> /\ newPlaceDesc = <<>> /\ selectedLocation = NULL
  /\ savedPlaces # <<>> /\ isTracking /\ editing = NULL

\* C17: whenever the add/edit modal is closed, the pending name and description
\* are empty and no coordinate is selected.
C17_ClosedModalHasEmptyForm ==
  ~addModalVisible =>
    (newPlaceName = <<>> /\ newPlaceDesc = <<>> /\ selectedLocation = NULL)

C17_Witness ==
  /\ ~addModalVisible /\ lastOp = "save" /\ listModalVisible
  /\ newPlaceName = <<>> /\ newPlaceDesc = <<>> /\ selectedLocation = NULL
  /\ Len(savedPlaces) >= 1 /\ Last(savedPlaces).description = <<"d">>

\* C18: tracking is true at the start; it goes from false to true only in a
\* recenter taken with a live position known; a known live position never
\* becomes unknown; so once tracking has been off, tracking on implies that a
\* live position is known.
C18_TrackingOnOnlyByRecenter ==
  /\ isTracking = TRUE
  /\ [][/\ (~isTracking /\ isTracking') => (lastOp' = "recenter" /\ location # NULL)
        /\ location # NULL => location' # NULL
        /\ (trackingWasOff' /\ isTracking') => location' # NULL]_vars

C18_Witness ==
  /\ lastOp = "recenter" /\ isTracking /\ location # NULL
  /\ trackingWasOff /\ editing # NULL /\ listModalVisible = FALSE

\* C19: opening the edit form sets tracking to false and leaves the list modal
\* open; a place saved again after an edit-open goes to the end of the store,
\* behind the entries that stayed.
C19_EditOpenAndResaveOrder ==
  [][/\ lastOp' = "edit" => (~isTracking' /\ listModalVisible' /\ addModalVisible')
     /\ (SavedStep /\ editing # NULL) =>
          /\ savedPlaces' = savedPlaces \o <<Last(savedPlaces')>>
          /\ Last(savedPlaces').name = newPlaceName
          /\ Last(savedPlaces').description = newPlaceDesc
          /\ Last(savedPlaces').latitude = editing.latitude
          /\ Last(savedPlaces').longitude = editing.longitude]_vars

C19_Witness ==
  /\ lastOp = "save" /\ ~addModalVisible /\ listModalVisible /\ ~isTracking
  /\ Len(savedPlaces) = 3
  /\ savedPlaces[3].description = <<"d">> /\ savedPlaces[3].latitude = 0
  /\ savedPlaces[1].latitude = 1 /\ savedPlaces[2].latitude = 1

====
